---- MODULE Spec2Model ----
(***************************************************************************)
(* FileStreamClient of tools/xstore/core/backup_restore/storage/           *)
(* filestream_client.py: a wrapper that builds the command line of the     *)
(* external filestream binary, spawns it with the caller's stream          *)
(* attached, waits for it and turns a non-zero exit code into a            *)
(* FilestreamException.                                                    *)
(*                                                                         *)
(* State: the client object, one call frame per calling thread, the        *)
(* table of child processes, the local file system and the remote store    *)
(* kept by the external binary.                                            *)
(***************************************************************************)
EXTENDS Integers, Sequences, FiniteSets, TLC

VARIABLES client, call, procs, files, remote, prev

vars == <<client, call, procs, files, remote, prev>>

----------------------------------------------------------------------------
\* Bounds of the model.

\* Longest initial content of the local file /data/a, in bytes.
MaxLen == 1

----------------------------------------------------------------------------
\* Values.

\* The threads that may share the one client, and the process ids: a call
\* has at most two children.
Threads == {1, 2}

Pids == 1..(2 * Cardinality(Threads))

Bytes == {"a", "b"}

NL == "\n"

SeqsUpTo(S, n) == UNION {[1..k -> S] : k \in 0..n}

\* class BackupStorage
BackupStorage == {"OSS", "SFTP", "S3"}

\* A value that is no member of BackupStorage (None, a string, ...).
OtherStorage == "NFS"

\* class ClientAction: member name |-> value
ClientAction ==
    [DownloadOss   |-> "downloadOss",
     UploadOss     |-> "uploadOss",
     DownloadSsh   |-> "DownloadSsh",
     UploadSsh     |-> "uploadSsh",
     DownloadMinio |-> "downloadMinio",
     UploadMinio   |-> "uploadMinio"]

None == "None"

\* context.filestream_client() and context.host_info(): opaque paths.
ClientPath == "/tools/xstore/current/bin/polardbx-filestream-client"

HostInfoPath == "/tools/xstore/hostinfo"

Sinks == {"default"}

RemotePaths == {"backup/x", "backup/y"}

\* Local paths: /data/a is a file the caller may read and not write,
\* /data/b is a path the caller may write, where no file exists at first.
LocalPaths == {"/data/a", "/data/b"}

Writable == {"/data/b"}

\* The strings handed to upload_from_string.
Strings == {<<"a">>}

\* Exit statuses of a child as Popen.wait() reports them: 0, a positive
\* exit code, or -N for a child killed by signal N.
ExitCodes == {0, 1, -9}

\* str(n) for an integer n.
Digit(d) ==
    CASE d = 0 -> "0" [] d = 1 -> "1" [] d = 2 -> "2" [] d = 3 -> "3"
      [] d = 4 -> "4" [] d = 5 -> "5" [] d = 6 -> "6" [] d = 7 -> "7"
      [] d = 8 -> "8" [] d = 9 -> "9"

RECURSIVE NatStr(_)
NatStr(n) == IF n < 10 THEN Digit(n) ELSE NatStr(n \div 10) \o Digit(n % 10)

str(n) == IF n < 0 THEN "-" \o NatStr(0 - n) ELSE NatStr(n)

\* The size hints a caller of upload_from_stdin may pass: none (""), or the
\* decimal size of a stream.
SizeHints == {"", str(MaxLen)}

----------------------------------------------------------------------------
\* Streams, files, processes.

NullStream == [kind |-> "null", path |-> "", pid |-> 0]

FileStream(path) == [kind |-> "file", path |-> path, pid |-> 0]

PipeStream(pid) == [kind |-> "pipe", path |-> "", pid |-> pid]

NoFile == [exists |-> FALSE, data |-> <<>>]

File(data) == [exists |-> TRUE, data |-> data]

NoProc ==
    [state |-> "free", owner |-> 0, argv |-> <<>>, stdin |-> NullStream,
     stdout |-> NullStream, code |-> 0, out |-> <<>>]

Idle ==
    [op |-> "idle", pc |-> "idle", remote_path |-> "", local |-> "",
     string |-> <<>>, is_string_input |-> FALSE, file_size |-> "",
     f |-> "none", pipe |-> 0, child |-> 0, cmd |-> <<>>,
     return_code |-> 0, exc |-> "none", msg |-> ""]

NoPrev == [valid |-> FALSE, remote_path |-> "", data |-> <<>>]

NewClient ==
    [state |-> "new", _client |-> None, _host_info |-> None,
     _storage |-> None, _sink |-> None,
     _download_action |-> None, _upload_action |-> None]

FreePids == {p \in Pids : procs[p].state = "free"}

----------------------------------------------------------------------------
\* The bug of a pair copied from the branch above: SFTP downloads with its
\* own action and uploads with that of OSS.
init_action_copied(storage) ==
    IF storage = "OSS"
    THEN [raised |-> "none", download |-> "DownloadOss", upload |-> "UploadOss"]
    ELSE IF storage = "SFTP"
    THEN [raised |-> "none", download |-> "DownloadSsh", upload |-> "UploadOss"]
    ELSE IF storage = "S3"
    THEN [raised |-> "none", download |-> "DownloadMinio", upload |-> "UploadMinio"]
    ELSE [raised |-> "NotImplementedError", download |-> None, upload |-> None]

\* FileStreamClient.init_action: the pair of actions of a storage, or the
\* NotImplementedError of the else branch.
init_action(storage) ==
    IF storage = "OSS"
    THEN [raised |-> "none", download |-> "DownloadOss", upload |-> "UploadOss"]
    ELSE IF storage = "SFTP"
    THEN [raised |-> "none", download |-> "DownloadSsh", upload |-> "UploadSsh"]
    ELSE IF storage = "S3"
    THEN [raised |-> "none", download |-> "DownloadMinio", upload |-> "UploadMinio"]
    ELSE [raised |-> "NotImplementedError", download |-> None, upload |-> None]

\* FileStreamClient.__init__
Construct(storage, sink) ==
    /\ client.state = "new"
    /\ LET a == init_action(storage) IN
       client' = [state |-> IF a.raised = "none" THEN "ok" ELSE a.raised,
                  _client |-> ClientPath,
                  _host_info |-> HostInfoPath,
                  _storage |-> storage,
                  _sink |-> sink,
                  _download_action |-> a.download,
                  _upload_action |-> a.upload]
    /\ UNCHANGED <<call, procs, files, remote, prev>>

----------------------------------------------------------------------------
\* Command lines.

\* The bug of the two pairs of tests in the other order: the flag of the
\* size hint comes before the flag of the string input.
upload_cmd_hint_first(self, remote_path, is_string_input, file_size) ==
    LET c0 == <<self._client,
                "--meta.action=" \o ClientAction[self._upload_action],
                "--meta.sink=" \o self._sink,
                "--meta.filename=" \o remote_path,
                "--hostInfoFilePath=" \o self._host_info>>
        c1 == IF file_size # "" /\ self._storage = "OSS"
              THEN Append(c0, "--meta.ossBufferSize=" \o file_size) ELSE c0
        c2 == IF file_size # "" /\ self._storage = "S3"
              THEN Append(c1, "--meta.minioBufferSize=" \o file_size) ELSE c1
        c3 == IF is_string_input /\ self._storage = "OSS"
              THEN Append(c2, "--meta.ossBufferSize=102400") ELSE c2
        c4 == IF is_string_input /\ self._storage = "S3"
              THEN Append(c3, "--meta.minioBufferSize=102400") ELSE c3
    IN  c4

\* The bug of a flag name copied from the line above: S3 is given the
\* flag of OSS for a string input.
upload_cmd_oss_name(self, remote_path, is_string_input, file_size) ==
    LET c0 == <<self._client,
                "--meta.action=" \o ClientAction[self._upload_action],
                "--meta.sink=" \o self._sink,
                "--meta.filename=" \o remote_path,
                "--hostInfoFilePath=" \o self._host_info>>
        c1 == IF is_string_input /\ self._storage = "OSS"
              THEN Append(c0, "--meta.ossBufferSize=102400") ELSE c0
        c2 == IF is_string_input /\ self._storage = "S3"
              THEN Append(c1, "--meta.ossBufferSize=102400") ELSE c1
        c3 == IF file_size # "" /\ self._storage = "OSS"
              THEN Append(c2, "--meta.ossBufferSize=" \o file_size) ELSE c2
        c4 == IF file_size # "" /\ self._storage = "S3"
              THEN Append(c3, "--meta.minioBufferSize=" \o file_size) ELSE c3
    IN  c4

\* upload_from_stdin, the command it builds (lines 66-81).
upload_cmd(self, remote_path, is_string_input, file_size) ==
    LET c0 == <<self._client,
                "--meta.action=" \o ClientAction[self._upload_action],
                "--meta.sink=" \o self._sink,
                "--meta.filename=" \o remote_path,
                "--hostInfoFilePath=" \o self._host_info>>
        c1 == IF is_string_input /\ self._storage = "OSS"
              THEN Append(c0, "--meta.ossBufferSize=102400") ELSE c0
        c2 == IF is_string_input /\ self._storage = "S3"
              THEN Append(c1, "--meta.minioBufferSize=102400") ELSE c1
        c3 == IF file_size # "" /\ self._storage = "OSS"
              THEN Append(c2, "--meta.ossBufferSize=" \o file_size) ELSE c2
        c4 == IF file_size # "" /\ self._storage = "S3"
              THEN Append(c3, "--meta.minioBufferSize=" \o file_size) ELSE c3
    IN  c4

\* download_to_stdout, the command it builds (lines 92-98).
download_cmd(self, remote_path) ==
    <<self._client,
      "--meta.action=" \o ClientAction[self._download_action],
      "--meta.sink=" \o self._sink,
      "--meta.filename=" \o remote_path,
      "--hostInfoFilePath=" \o self._host_info>>

\* upload_from_string, the command of the producer (lines 136-139).
echo_cmd(string) == <<"echo", string>>

\* The bug of `if return_code > 0:`: a child killed by a signal passes.
Failed_positive(return_code) == return_code > 0

\* `if return_code:` of lines 88 and 103.
Failed(return_code) == return_code # 0

UploadMessage(return_code) == "Failed to upload, return code: " \o str(return_code)

DownloadMessage(return_code) == "Failed to download, return code: " \o str(return_code)

\* open(local, "r") and open(local, "w"): the errors of the file system.
CanOpenRead(path) == files[path].exists

CanOpenWrite(path) == path \in Writable

\* The frame a finished upload_from_stdin or download_to_stdout returns or
\* raises into: the caller, or the with block of the method that delegated.
After(op) ==
    CASE op \in {"upload_from_stdin", "download_to_stdout"} -> "done"
      [] op \in {"upload_from_file", "download_to_file"} -> "f_exit"
      [] op = "upload_from_string" -> "pipe_exit"

Ready(t) == client.state = "ok" /\ call[t].op = "idle"

----------------------------------------------------------------------------
\* The methods of FileStreamClient, called by thread t.

Min(S) == CHOOSE p \in S : \A q \in S : p <= q

\* subprocess.Popen(argv, stdin=..., stdout=...): the child runs.
Popen(owner, argv, stdin, stdout) ==
    [state |-> "running", owner |-> owner, argv |-> argv,
     stdin |-> stdin, stdout |-> stdout, code |-> 0, out |-> <<>>]

\* The history of the round trip: the upload_from_file that came just
\* before is remembered while a download_to_file follows it.
KeepPrev(op) ==
    prev' = IF op = "download_to_file" THEN prev ELSE NoPrev

\* upload_from_stdin called by the application with a stream of its own
\* (lines 66-86): the command is built and the child spawned.
upload_from_stdin(t, remote_path, is_string_input, file_size) ==
    /\ Ready(t)
    /\ FreePids # {}
    /\ LET pid == Min(FreePids)
           upload == upload_cmd(client, remote_path, is_string_input, file_size) IN
       /\ procs' = [procs EXCEPT ![pid] = Popen(t, upload, NullStream, NullStream)]
       /\ call' = [call EXCEPT ![t] =
             [Idle EXCEPT !.op = "upload_from_stdin", !.pc = "up_wait",
                          !.remote_path = remote_path,
                          !.is_string_input = is_string_input,
                          !.file_size = file_size,
                          !.cmd = upload, !.child = pid]]
    /\ KeepPrev("upload_from_stdin")
    /\ UNCHANGED <<client, files, remote>>

\* download_to_stdout called by the application with a stream of its own
\* (lines 92-101): the command is built and the child spawned.
download_to_stdout(t, remote_path) ==
    /\ Ready(t)
    /\ FreePids # {}
    /\ LET pid == Min(FreePids)
           download == download_cmd(client, remote_path) IN
       /\ procs' = [procs EXCEPT ![pid] = Popen(t, download, NullStream, NullStream)]
       /\ call' = [call EXCEPT ![t] =
             [Idle EXCEPT !.op = "download_to_stdout", !.pc = "down_wait",
                          !.remote_path = remote_path,
                          !.cmd = download, !.child = pid]]
    /\ KeepPrev("download_to_stdout")
    /\ UNCHANGED <<client, files, remote>>

\* upload_from_file (lines 115-118, then 66-86): open(local, "r") raises, or
\* the file is open, its size is taken and upload_from_stdin spawns the
\* child with the file as its stdin.
upload_from_file(t, remote_path, local) ==
    /\ Ready(t)
    /\ FreePids # {}
    /\ IF CanOpenRead(local)
       THEN LET pid == Min(FreePids)
                file_size == str(Len(files[local].data))
                upload == upload_cmd(client, remote_path, FALSE, file_size) IN
            /\ procs' = [procs EXCEPT ![pid] =
                  Popen(t, upload, FileStream(local), NullStream)]
            /\ call' = [call EXCEPT ![t] =
                  [Idle EXCEPT !.op = "upload_from_file", !.pc = "up_wait",
                               !.remote_path = remote_path, !.local = local,
                               !.f = "open",
                               !.is_string_input = FALSE,
                               !.file_size = file_size,
                               !.cmd = upload, !.child = pid]]
       ELSE /\ procs' = procs
            /\ call' = [call EXCEPT ![t] =
                  [Idle EXCEPT !.op = "upload_from_file", !.pc = "done",
                               !.remote_path = remote_path, !.local = local,
                               !.exc = "OSError"]]
    /\ KeepPrev("upload_from_file")
    /\ UNCHANGED <<client, files, remote>>

\* The bug of the child spawned before the file is opened: the open fails
\* with the child running.
download_to_file_spawn_first(t, remote_path, local) ==
    /\ Ready(t)
    /\ FreePids # {}
    /\ LET pid == Min(FreePids)
           download == download_cmd(client, remote_path) IN
       /\ procs' = [procs EXCEPT ![pid] =
             Popen(t, download, NullStream, FileStream(local))]
       /\ IF CanOpenWrite(local)
          THEN /\ files' = [files EXCEPT ![local] = File(<<>>)]
               /\ call' = [call EXCEPT ![t] =
                     [Idle EXCEPT !.op = "download_to_file", !.pc = "down_wait",
                                  !.remote_path = remote_path, !.local = local,
                                  !.f = "open",
                                  !.cmd = download, !.child = pid]]
          ELSE /\ files' = files
               /\ call' = [call EXCEPT ![t] =
                     [Idle EXCEPT !.op = "download_to_file", !.pc = "done",
                                  !.remote_path = remote_path, !.local = local,
                                  !.cmd = download, !.child = pid,
                                  !.exc = "OSError"]]
    /\ KeepPrev("download_to_file")
    /\ UNCHANGED <<client, remote>>

\* The bug of open(local, "r+") or of a file opened without truncation: an
\* existing file keeps its content.
download_to_file_no_truncate(t, remote_path, local) ==
    /\ Ready(t)
    /\ FreePids # {}
    /\ IF CanOpenWrite(local)
       THEN LET pid == Min(FreePids)
                download == download_cmd(client, remote_path) IN
            /\ files' = [files EXCEPT ![local] = File(@.data)]
            /\ procs' = [procs EXCEPT ![pid] =
                  Popen(t, download, NullStream, FileStream(local))]
            /\ call' = [call EXCEPT ![t] =
                  [Idle EXCEPT !.op = "download_to_file", !.pc = "down_wait",
                               !.remote_path = remote_path, !.local = local,
                               !.f = "open",
                               !.cmd = download, !.child = pid]]
       ELSE /\ files' = files
            /\ procs' = procs
            /\ call' = [call EXCEPT ![t] =
                  [Idle EXCEPT !.op = "download_to_file", !.pc = "done",
                               !.remote_path = remote_path, !.local = local,
                               !.exc = "OSError"]]
    /\ KeepPrev("download_to_file")
    /\ UNCHANGED <<client, remote>>

\* download_to_file (lines 129-130, then 92-101): open(local, "w") raises,
\* or the file is created or truncated and download_to_stdout spawns the
\* child with the file as its stdout.
download_to_file(t, remote_path, local) ==
    /\ Ready(t)
    /\ FreePids # {}
    /\ IF CanOpenWrite(local)
       THEN LET pid == Min(FreePids)
                download == download_cmd(client, remote_path) IN
            /\ files' = [files EXCEPT ![local] = File(<<>>)]
            /\ procs' = [procs EXCEPT ![pid] =
                  Popen(t, download, NullStream, FileStream(local))]
            /\ call' = [call EXCEPT ![t] =
                  [Idle EXCEPT !.op = "download_to_file", !.pc = "down_wait",
                               !.remote_path = remote_path, !.local = local,
                               !.f = "open",
                               !.cmd = download, !.child = pid]]
       ELSE /\ files' = files
            /\ procs' = procs
            /\ call' = [call EXCEPT ![t] =
                  [Idle EXCEPT !.op = "download_to_file", !.pc = "done",
                               !.remote_path = remote_path, !.local = local,
                               !.exc = "OSError"]]
    /\ KeepPrev("download_to_file")
    /\ UNCHANGED <<client, remote>>

\* upload_from_string (lines 136-142, then 66-86): the producer is spawned
\* with a pipe as its stdout, and upload_from_stdin spawns the child with
\* that pipe as its stdin.
upload_from_string(t, remote_path, string) ==
    /\ Ready(t)
    /\ Cardinality(FreePids) >= 2
    /\ LET pipe == Min(FreePids)
           pid == Min(FreePids \ {pipe})
           upload == upload_cmd(client, remote_path, TRUE, "") IN
       /\ procs' = [procs EXCEPT
             ![pipe] = Popen(t, echo_cmd(string), NullStream, PipeStream(pipe)),
             ![pid] = Popen(t, upload, PipeStream(pipe), NullStream)]
       /\ call' = [call EXCEPT ![t] =
             [Idle EXCEPT !.op = "upload_from_string", !.pc = "up_wait",
                          !.remote_path = remote_path, !.string = string,
                          !.pipe = pipe,
                          !.is_string_input = TRUE,
                          !.cmd = upload, !.child = pid]]
    /\ KeepPrev("upload_from_string")
    /\ UNCHANGED <<client, files, remote>>

\* The bug of os.wait() in place of up.wait(): the call takes the exit
\* status of whichever child of the process has exited.
wait_upload_any(t) ==
    /\ call[t].pc = "up_wait"
    /\ \E p \in Pids :
         /\ procs[p].state = "exited"
         /\ LET return_code == procs[p].code IN
            /\ procs' = [procs EXCEPT ![p].state = "reaped"]
            /\ call' = [call EXCEPT
                  ![t].return_code = return_code,
                  ![t].exc = IF Failed(return_code) THEN "FilestreamException" ELSE "none",
                  ![t].msg = IF Failed(return_code) THEN UploadMessage(return_code) ELSE "",
                  ![t].pc = After(call[t].op)]
    /\ UNCHANGED <<client, files, remote, prev>>

\* up.wait() and the check of its return code (lines 87-89); the with block
\* of line 86 is left, by return or by the exception.
wait_upload(t) ==
    /\ call[t].pc = "up_wait"
    /\ procs[call[t].child].state = "exited"
    /\ LET return_code == procs[call[t].child].code IN
       /\ procs' = [procs EXCEPT ![call[t].child].state = "reaped"]
       /\ call' = [call EXCEPT
             ![t].return_code = return_code,
             ![t].exc = IF Failed(return_code) THEN "FilestreamException" ELSE "none",
             ![t].msg = IF Failed(return_code) THEN UploadMessage(return_code) ELSE "",
             ![t].pc = After(call[t].op)]
    /\ UNCHANGED <<client, files, remote, prev>>

\* dp.wait() and the check of its return code (lines 102-104).
wait_download(t) ==
    /\ call[t].pc = "down_wait"
    /\ procs[call[t].child].state = "exited"
    /\ LET return_code == procs[call[t].child].code IN
       /\ procs' = [procs EXCEPT ![call[t].child].state = "reaped"]
       /\ call' = [call EXCEPT
             ![t].return_code = return_code,
             ![t].exc = IF Failed(return_code) THEN "FilestreamException" ELSE "none",
             ![t].msg = IF Failed(return_code) THEN DownloadMessage(return_code) ELSE "",
             ![t].pc = After(call[t].op)]
    /\ UNCHANGED <<client, files, remote, prev>>

\* The bug of f.close() after the call in place of the with block: an
\* exception leaves f open.
exit_file_no_with(t) ==
    /\ call[t].pc = "f_exit"
    /\ call' = [call EXCEPT
          ![t].f = IF call[t].exc = "none" THEN "closed" ELSE "open",
          ![t].pc = "done"]
    /\ UNCHANGED <<client, procs, files, remote, prev>>

\* The end of `with open(local, ...) as f` (lines 115 and 129): f is closed,
\* and the method returns or the exception propagates.
exit_file(t) ==
    /\ call[t].pc = "f_exit"
    /\ call' = [call EXCEPT ![t].f = "closed", ![t].pc = "done"]
    /\ UNCHANGED <<client, procs, files, remote, prev>>

\* The bug of a producer spawned without the with block: nothing waits for
\* it.
exit_pipe_no_wait(t) ==
    /\ call[t].pc = "pipe_exit"
    /\ call' = [call EXCEPT ![t].pc = "done"]
    /\ UNCHANGED <<client, procs, files, remote, prev>>

\* The change of a producer whose return code is checked: a producer that
\* failed fails the call.
exit_pipe_checked(t) ==
    /\ call[t].pc = "pipe_exit"
    /\ procs[call[t].pipe].state = "exited"
    /\ procs' = [procs EXCEPT ![call[t].pipe].state = "reaped"]
    /\ call' = [call EXCEPT
          ![t].pc = "done",
          ![t].exc = IF call[t].exc = "none" /\ procs[call[t].pipe].code # 0
                     THEN "FilestreamException" ELSE call[t].exc]
    /\ UNCHANGED <<client, files, remote, prev>>

\* The end of `with subprocess.Popen(echo_cmd, ...) as pipe` (line 140):
\* Popen.__exit__ closes pipe.stdout and waits for the producer; its return
\* code is not looked at.
exit_pipe(t) ==
    /\ call[t].pc = "pipe_exit"
    /\ procs[call[t].pipe].state = "exited"
    /\ procs' = [procs EXCEPT ![call[t].pipe].state = "reaped"]
    /\ call' = [call EXCEPT ![t].pc = "done"]
    /\ UNCHANGED <<client, files, remote, prev>>

\* The caller takes the result of the finished call; the Popen objects of
\* the call are garbage.
Return(t) ==
    /\ call[t].pc = "done"
    /\ procs' = [p \in Pids |->
          IF procs[p].owner = t /\ procs[p].state = "reaped" THEN NoProc ELSE procs[p]]
    /\ prev' = IF call[t].op = "upload_from_file" /\ call[t].exc = "none"
               THEN [valid |-> TRUE, remote_path |-> call[t].remote_path,
                     data |-> files[call[t].local].data]
               ELSE NoPrev
    /\ call' = [call EXCEPT ![t] = Idle]
    /\ UNCHANGED <<client, files, remote>>

----------------------------------------------------------------------------
\* The child processes: the producer `echo` and the external filestream
\* binary, which keeps what it reads on an upload under the remote path and
\* writes it back on a download.

ArgAction(argv) ==
    CHOOSE a \in {ClientAction[m] : m \in DOMAIN ClientAction} :
        argv[2] = "--meta.action=" \o a

ArgFilename(argv) ==
    CHOOSE r \in RemotePaths : argv[4] = "--meta.filename=" \o r

IsUploadAction(a) == a \in {"uploadOss", "uploadSsh", "uploadMinio"}

IsEcho(p) == procs[p].argv[1] = "echo"

IsUploader(p) == ~IsEcho(p) /\ IsUploadAction(ArgAction(procs[p].argv))

IsDownloader(p) == ~IsEcho(p) /\ ~IsUploadAction(ArgAction(procs[p].argv))

\* What a process reads from its stdin up to end of file.
Input(stream) ==
    CASE stream.kind = "file" -> files[stream.path].data
      [] stream.kind = "pipe" -> procs[stream.pid].out
      [] OTHER -> <<>>

\* A write of data at offset 0 of a file holding old.
Overlay(old, data) == data \o SubSeq(old, Len(data) + 1, Len(old))

\* echo writes the string and a newline in one write and exits 0, or dies
\* before the write (k = 0) or after it.
EchoExit(p, code, k) ==
    /\ procs[p].state = "running"
    /\ IsEcho(p)
    /\ LET data == procs[p].argv[2] \o <<NL>> IN
       /\ k \in {0, Len(data)}
       /\ code = 0 => k = Len(data)
       /\ procs' = [procs EXCEPT ![p].state = "exited", ![p].code = code,
                                 ![p].out = SubSeq(data, 1, k)]
    /\ UNCHANGED <<client, call, files, remote, prev>>

\* The binary uploads: it exits 0 when it has stored its whole input (at
\* end of file: the writer of a pipe has gone), or fails and stores nothing.
UploadExit(p, code) ==
    /\ procs[p].state = "running"
    /\ IsUploader(p)
    /\ LET data == Input(procs[p].stdin)
           name == ArgFilename(procs[p].argv) IN
       /\ code = 0 /\ procs[p].stdin.kind = "pipe"
             => procs[procs[p].stdin.pid].state # "running"
       /\ remote' = IF code = 0
                    THEN [remote EXCEPT ![name] = File(data)]
                    ELSE remote
    /\ procs' = [procs EXCEPT ![p].state = "exited", ![p].code = code]
    /\ UNCHANGED <<client, call, files, prev>>

\* The binary downloads: it exits 0 when it has written the whole object
\* to its stdout, or fails (always, when there is no such object) having
\* written a part of it.
DownloadExit(p, code, k) ==
    /\ procs[p].state = "running"
    /\ IsDownloader(p)
    /\ LET obj == remote[ArgFilename(procs[p].argv)]
           out == procs[p].stdout IN
       /\ k <= Len(obj.data)
       /\ code = 0 => obj.exists /\ k = Len(obj.data)
       /\ files' = IF out.kind = "file"
                   THEN [files EXCEPT ![out.path] =
                           File(Overlay(@.data, SubSeq(obj.data, 1, k)))]
                   ELSE files
    /\ procs' = [procs EXCEPT ![p].state = "exited", ![p].code = code]
    /\ UNCHANGED <<client, call, remote, prev>>

----------------------------------------------------------------------------
\* Specifications.

\* No client yet, no call, no process, nothing stored; /data/a holds one of
\* the contents D.
InitWith(D) ==
    /\ client = NewClient
    /\ call = [t \in Threads |-> Idle]
    /\ procs = [p \in Pids |-> NoProc]
    /\ \E d \in D :
          files = [p \in LocalPaths |-> IF p \in Writable THEN NoFile ELSE File(d)]
    /\ remote = [r \in RemotePaths |-> NoFile]
    /\ prev = NoPrev

Init == InitWith(SeqsUpTo(Bytes, MaxLen))

\* The steps of the threads T when the application draws the storage from
\* St, the remote paths from R, the string-input flags from B, the size
\* hints from H, and the exit status of a child is in Codes.
Step(T, St, R, B, H, Codes) ==
    \/ \E storage \in St, sink \in Sinks : Construct(storage, sink)
    \/ \E t \in T, r \in R, b \in B, h \in H : upload_from_stdin(t, r, b, h)
    \/ \E t \in T, r \in R : download_to_stdout(t, r)
    \/ \E t \in T, r \in R, l \in LocalPaths : upload_from_file(t, r, l)
    \/ \E t \in T, r \in R, l \in LocalPaths : download_to_file(t, r, l)
    \/ \E t \in T, r \in R, s \in Strings : upload_from_string(t, r, s)
    \/ \E t \in T : wait_upload(t)
    \/ \E t \in T : wait_download(t)
    \/ \E t \in T : exit_file(t)
    \/ \E t \in T : exit_pipe(t)
    \/ \E t \in T : Return(t)
    \/ \E p \in Pids, code \in Codes, k \in 0..(MaxLen + 1) : EchoExit(p, code, k)
    \/ \E p \in Pids, code \in Codes : UploadExit(p, code)
    \/ \E p \in Pids, code \in Codes, k \in 0..(MaxLen + 1) : DownloadExit(p, code, k)

\* One thread uses the client.
Next == Step({1}, BackupStorage \cup {OtherStorage}, RemotePaths, BOOLEAN, SizeHints, ExitCodes)

Spec == Init /\ [][Next]_vars

\* All threads share the client and work on one remote path.
NextConc == Step(Threads, {"OSS", OtherStorage}, {"backup/x"}, {FALSE}, {""}, {0, -9})

InitConc == InitWith({<<"b">>})

SpecConc == InitConc /\ [][NextConc]_vars

----------------------------------------------------------------------------
\* Properties.

Uploads == {"upload_from_stdin", "upload_from_file", "upload_from_string"}

\* The wait of call t on its transfer child has returned.
Waited(t) == call[t].child # 0 /\ call[t].pc \in {"f_exit", "pipe_exit", "done"}

\* The text of an exit status as it stands in a message.
CodeText(code) == CASE code = 0 -> "0" [] code = 1 -> "1" [] code = -9 -> "-9"

ExpectedMessage(op, code) ==
    IF op \in Uploads
    THEN "Failed to upload, return code: " \o CodeText(code)
    ELSE "Failed to download, return code: " \o CodeText(code)

\* C1: for every backend, on the upload and on the download path, a child
\* that exits 0 makes the call succeed, and a child that exits with any
\* other status, a negative one included, makes it raise a
\* FilestreamException whose message carries that status.
C1_ExitCodeDecides ==
    \A t \in Threads :
        Waited(t) =>
            LET code == procs[call[t].child].code IN
            /\ code = 0 => call[t].exc = "none"
            /\ code # 0 => /\ call[t].exc = "FilestreamException"
                           /\ call[t].msg = ExpectedMessage(call[t].op, code)

C1_Witness ==
    \E t \in Threads :
        /\ call[t].op = "download_to_stdout"
        /\ call[t].pc = "done"
        /\ client._storage = "SFTP"
        /\ procs[call[t].child].code = -9
        /\ call[t].exc = "FilestreamException"

\* C2: a client constructed with OSS, SFTP or S3 holds exactly the pair of
\* actions of that storage and never a null action; with any other storage
\* the construction itself raises NotImplementedError, and no call is ever
\* made on such a client.
C2_ActionPairs ==
    /\ client.state = "ok" =>
          \/ /\ client._storage = "OSS"
             /\ client._download_action = "DownloadOss"
             /\ client._upload_action = "UploadOss"
          \/ /\ client._storage = "SFTP"
             /\ client._download_action = "DownloadSsh"
             /\ client._upload_action = "UploadSsh"
          \/ /\ client._storage = "S3"
             /\ client._download_action = "DownloadMinio"
             /\ client._upload_action = "UploadMinio"
    /\ client.state # "new" /\ client._storage \notin {"OSS", "SFTP", "S3"} =>
          /\ client.state = "NotImplementedError"
          /\ \A t \in Threads : call[t] = Idle
          /\ \A p \in Pids : procs[p] = NoProc

C2_Witness == client.state = "NotImplementedError" /\ client._storage = OtherStorage

\* The buffer-size flag of a storage.
FlagName(storage) ==
    IF storage = "OSS" THEN "--meta.ossBufferSize=" ELSE "--meta.minioBufferSize="

Args(cmd) == {cmd[i] : i \in 1..Len(cmd)}

\* Call t has built an upload command.
Uploading(t) == call[t].op \in Uploads /\ call[t].cmd # <<>>

\* C3 as stated: with a non-empty size hint on OSS or S3 the command holds
\* the flag with the hint, and with a string input too the value in the
\* command is the hint and not 102400.
C3_HintReplacesDefault ==
    \A t \in Threads :
        Uploading(t) /\ call[t].file_size # "" /\ client._storage \in {"OSS", "S3"} =>
            /\ FlagName(client._storage) \o call[t].file_size \in Args(call[t].cmd)
            /\ call[t].file_size # "102400" =>
                  FlagName(client._storage) \o "102400" \notin Args(call[t].cmd)

\* C3 as amended: with a non-empty size hint on OSS or S3 the last argument
\* of the command is the flag with the hint; with a string input too, the
\* flag with 102400 stands right before it (the hint is added after the
\* default, not put in its place); on SFTP a size hint adds no argument.
C3_HintIsLastFlag ==
    \A t \in Threads :
        Uploading(t) /\ call[t].file_size # "" =>
            LET cmd == call[t].cmd IN
            IF client._storage \in {"OSS", "S3"}
            THEN /\ cmd[Len(cmd)] = FlagName(client._storage) \o call[t].file_size
                 /\ IF call[t].is_string_input
                    THEN /\ Len(cmd) = 7
                         /\ cmd[6] = FlagName(client._storage) \o "102400"
                    ELSE Len(cmd) = 6
            ELSE Len(cmd) = 5

C3_Witness ==
    \E t \in Threads :
        /\ Uploading(t)
        /\ client._storage = "OSS"
        /\ call[t].is_string_input
        /\ call[t].file_size = str(MaxLen)
        /\ call[t].pc = "done"

\* The arguments that are a buffer-size flag: one of the two names and a
\* value.
BufferFlags(values) ==
    {"--meta.ossBufferSize=" \o v : v \in values}
        \cup {"--meta.minioBufferSize=" \o v : v \in values}

AnyValue == {"102400"} \cup {str(n) : n \in 0..(MaxLen + 2)}

\* C4: the upload command holds a buffer-size flag if and only if the storage
\* is OSS or S3 and the input is a string or a size hint is given; the flag
\* is --meta.ossBufferSize for OSS and --meta.minioBufferSize for S3, its
\* value is 102400 when only the string input applies, and on SFTP there is
\* never such a flag.
C4_BufferFlag ==
    \A t \in Threads :
        Uploading(t) =>
            LET cmd == call[t].cmd
                flags == Args(cmd) \cap BufferFlags(AnyValue)
                wanted == /\ client._storage \in {"OSS", "S3"}
                          /\ call[t].is_string_input \/ call[t].file_size # ""
            IN
            /\ flags # {} <=> wanted
            /\ \A i \in 6..Len(cmd) : cmd[i] \in flags
            /\ client._storage = "OSS" =>
                  flags \subseteq {"--meta.ossBufferSize=" \o v : v \in AnyValue}
            /\ client._storage = "S3" =>
                  flags \subseteq {"--meta.minioBufferSize=" \o v : v \in AnyValue}
            /\ wanted /\ call[t].file_size = "" =>
                  flags = {FlagName(client._storage) \o "102400"}
            /\ client._storage = "SFTP" => flags = {} /\ Len(cmd) = 5

C4_Witness ==
    \E t \in Threads :
        /\ call[t].op = "upload_from_string"
        /\ client._storage = "S3"
        /\ call[t].cmd[6] = "--meta.minioBufferSize=102400"
        /\ Len(call[t].cmd) = 6

\* The children call t has spawned.
Children(t) == {p \in Pids : procs[p].owner = t}

\* C5: while a call waits, its child has been spawned with the streams of
\* the call attached; once the call has returned or raised, every child it
\* spawned, the producer of upload_from_string included, has exited and has
\* been waited for; a thread that is in no call has no child.
C5_NoChildInFlight ==
    \A t \in Threads :
        /\ call[t].pc \in {"up_wait", "down_wait"} =>
              /\ call[t].child \in Children(t)
              /\ procs[call[t].child].state \in {"running", "exited"}
              /\ procs[call[t].child].argv = call[t].cmd
              /\ call[t].op = "upload_from_file" =>
                    procs[call[t].child].stdin = FileStream(call[t].local)
              /\ call[t].op = "download_to_file" =>
                    procs[call[t].child].stdout = FileStream(call[t].local)
              /\ call[t].op = "upload_from_string" =>
                    /\ call[t].pipe \in Children(t)
                    /\ procs[call[t].child].stdin = PipeStream(call[t].pipe)
        /\ call[t].pc = "done" => \A p \in Children(t) : procs[p].state = "reaped"
        /\ call[t].pc = "idle" => Children(t) = {}

C5_Witness ==
    \E t \in Threads :
        /\ call[t].op = "upload_from_string"
        /\ call[t].pc = "done"
        /\ call[t].exc = "FilestreamException"
        /\ procs[call[t].pipe].state = "reaped"
        /\ procs[call[t].child].state = "reaped"

\* C6: a download_to_file whose local path cannot be opened for writing
\* raises the error of the file system and has spawned no child.
C6_OpenFailsBeforeSpawn ==
    \A t \in Threads :
        call[t].op = "download_to_file" /\ call[t].local \notin Writable =>
            /\ call[t].pc = "done"
            /\ call[t].exc = "OSError"
            /\ call[t].child = 0
            /\ Children(t) = {}

C6_Witness ==
    \E t \in Threads :
        /\ call[t].op = "download_to_file"
        /\ call[t].local = "/data/a"
        /\ call[t].exc = "OSError"

\* C7: the result of upload_from_string is that of the upload child alone:
\* it succeeds exactly when the upload child exits 0, whatever the exit
\* status of the producer.
C7_ProducerUnchecked ==
    \A t \in Threads :
        call[t].op = "upload_from_string" /\ call[t].pc = "done" =>
            /\ call[t].exc = "none" <=> procs[call[t].child].code = 0
            /\ call[t].exc # "none" =>
                  /\ call[t].exc = "FilestreamException"
                  /\ call[t].return_code = procs[call[t].child].code

C7_Witness ==
    \E t \in Threads :
        /\ call[t].op = "upload_from_string"
        /\ call[t].pc = "done"
        /\ procs[call[t].pipe].code # 0
        /\ procs[call[t].child].code = 0
        /\ call[t].exc = "none"

\* C8: when upload_from_file or download_to_file has returned, or has raised
\* because its child failed, the file it opened is closed; a download that
\* failed leaves the local file it created where it is.
C8_HandleReleased ==
    \A t \in Threads :
        call[t].op \in {"upload_from_file", "download_to_file"} /\ call[t].pc = "done" =>
            /\ call[t].f # "open"
            /\ call[t].exc # "OSError" => call[t].f = "closed"
            /\ call[t].op = "download_to_file" /\ call[t].exc = "FilestreamException" =>
                  files[call[t].local].exists

C8_Witness ==
    \E t \in Threads :
        /\ call[t].op = "download_to_file"
        /\ call[t].pc = "done"
        /\ call[t].exc = "FilestreamException"
        /\ call[t].f = "closed"
        /\ files[call[t].local].exists

\* The command of call t, from its own arguments and the client.
CommandOf(t) ==
    IF call[t].op \in Uploads
    THEN upload_cmd(client, call[t].remote_path, call[t].is_string_input, call[t].file_size)
    ELSE download_cmd(client, call[t].remote_path)

\* The calls of the threads stand apart: each has a child of its own, spawned
\* with its own command, and a result that follows the exit of that child.
Apart ==
    /\ \A t \in Threads :
          call[t].child # 0 =>
              /\ procs[call[t].child].owner = t
              /\ procs[call[t].child].argv = call[t].cmd
              /\ call[t].cmd = CommandOf(t)
              /\ call[t].pc \in {"up_wait", "down_wait"} => call[t].exc = "none"
              /\ Waited(t) =>
                    /\ call[t].return_code = procs[call[t].child].code
                    /\ call[t].exc = "none" <=> procs[call[t].child].code = 0
    /\ \A t, u \in Threads :
          t # u /\ call[t].child # 0 => call[t].child \notin {call[u].child, call[u].pipe}

\* C9: with two threads in calls on one client at once, in every
\* interleaving, no step changes the client once it is constructed, and the
\* calls stand apart.
C9_NoInterference ==
    [][(client.state # "new" => client' = client) /\ Apart']_vars

C9_Witness ==
    \E t, u \in Threads :
        /\ t # u
        /\ call[t].pc = "done" /\ call[t].op = "upload_from_file"
        /\ call[t].exc = "none"
        /\ call[u].pc = "done" /\ call[u].op = "upload_from_string"
        /\ call[u].exc = "FilestreamException"

\* C10: when the binary stores what it reads and gives it back and exits 0,
\* upload_from_file(remote, A) and then download_to_file(remote, B) leave in
\* B the bytes of A, whatever they are.
C10_RoundTrip ==
    \A t \in Threads :
        /\ call[t].op = "download_to_file"
        /\ call[t].pc = "done"
        /\ call[t].exc = "none"
        /\ prev.valid
        /\ prev.remote_path = call[t].remote_path
        => files[call[t].local] = File(prev.data)

C10_Witness ==
    \E t \in Threads :
        /\ call[t].op = "download_to_file"
        /\ call[t].pc = "done"
        /\ call[t].exc = "none"
        /\ prev.valid
        /\ prev.remote_path = call[t].remote_path
        /\ prev.data = <<"b">>
        /\ files[call[t].local] = File(<<"b">>)
        /\ files["/data/a"] = File(<<"b">>)

====
